---- MODULE Spec2Model ----
(***************************************************************************)
(* Culk-Analytics ingestion: the ShipHero GraphQL fetch with its retry     *)
(* loop (ingestion/shiphero.py, fetch_shiphero_graphql), the cursor-driven *)
(* paging loops of the ShipHero and Shopify resources, the one-shot        *)
(* Shopify transport (ingestion/shopify.py, fetch_shopify_graphql), the    *)
(* entry point run_pipeline.main, the Loop Returns resource with its date  *)
(* chunks and its sanitizing (ingestion/loop_returns.py), the Faire load   *)
(* with its request counter, flattening functions and transformers         *)
(* (ingestion/faire.py), and the ShipHero load with the token check and    *)
(* refresh that precede it (ingestion/utils/shiphero_token_refresh.py).    *)
(*                                                                         *)
(* Every delay is recorded in milliseconds.                                *)
(***************************************************************************)
EXTENDS Integers, Sequences, FiniteSets, TLC

VARIABLES
    extractor,        \* the resource generator that runs ("direct": a bare fetch call)
    access_token,     \* TRUE iff sources.shiphero.access_token is configured
    max_retries,      \* parameter of fetch_shiphero_graphql
    base_delay,       \* parameter of fetch_shiphero_graphql, in ms
    fpc,              \* position in the running fetch call
    attempt,          \* loop variable of the retry loop
    last_exception,   \* local last_exception
    data,             \* local data ("unbound" until response.json() returned)
    reqs,             \* session.post calls of the running fetch call
    sleeps,           \* delays the running fetch call passed to asyncio.sleep
    hist,             \* provider answers of the running fetch call, in order
    saved,            \* save_error_context calls of the running fetch call
    error,            \* exception type the fetch call raised
    result,           \* value the fetch call returned
    ppc,              \* position of the resource generator
    cursor,           \* local cursor of the generator
    has_next_page,    \* local has_next_page of the generator
    page_count,       \* iterations of the paging loop started
    calls,            \* variables passed to each fetch call, in order
    pages,            \* pages the fetch calls returned, in order
    yielded,          \* records the generator yielded, in order
    psleeps,          \* delays the generator itself passed to asyncio.sleep
    posts,            \* session.post calls of the whole generator run
    perror,           \* exception type that ended the generator
    cost,             \* cost information fetch_shopify_graphql printed last
    main_pc,          \* position of run_pipeline.main
    sources,          \* local sources of main
    failed_sources,   \* local failed_sources of main
    invoked,          \* loaders main called, in order
    outcomes,         \* how each of these calls ended, in order
    loop_pc,          \* position of Loop fetch_returns, or of a bare chunk_date_range call
    api_key,          \* TRUE iff sources.loop_returns.api_key is configured
    from_date,        \* from_date of loop_returns_source, start_date of a bare call
    to_date,          \* to_date of loop_returns_source, end_date of a bare call
    chunk_days,       \* chunk_days passed to chunk_date_range
    date_chunks,      \* the list chunk_date_range returned
    chunk_i,          \* number of date chunks the for loop has entered
    url,              \* local url of fetch_returns
    params,           \* local params of fetch_returns
    gets,             \* requests.get calls of fetch_returns with their answers, in order
    received,         \* items of the response bodies, as received, in order
    returns,          \* records fetch_returns yielded, in order
    loop_error,       \* exception type that ended fetch_returns
    faire_pc,         \* position of the Faire load
    faire_secrets,    \* which of the three Faire credentials are configured
    faire_resource,   \* the raw resource that runs: "orders" or "products"
    faire_more,       \* the paginator of the REST client has another page to ask for
    faire_pending,    \* records of the last page the raw resource has not yet yielded
    faire_gets,       \* HTTP requests of the REST client in this load
    faire_records,    \* records the raw resources yielded in this load
    faire_error,      \* exception type that ended the load
    loads,            \* calls of faire.load_to_postgres
    count,            \* request_counter.count
    naps,             \* time.sleep calls of request_counter since its last reset
    last_nap,         \* delay the last increment() slept, in ms (0: it did not sleep)
    raw_kind,         \* what the raw resource yielded: "order" or "product"
    raw,              \* the raw record handed to every transformer
    ran,              \* the transformers that have processed the record
    emitted,          \* the records each transformer yielded for it, in order
    load_pc,          \* position of shiphero.load_to_postgres
    token_expires_at, \* sources.shiphero.token_expires_at as dlt.config returns it
    refresh_token,    \* TRUE iff sources.shiphero.refresh_token is configured
    warehouse_id,     \* TRUE iff sources.shiphero.warehouse_id is configured
    secrets_toml,     \* sources.shiphero.access_token in the file .dlt/secrets.toml
    config_toml,      \* sources.shiphero.token_expires_at in the file .dlt/config.toml
    refresh_posts,    \* answers to the requests.post calls to the refresh endpoint
    refresh_result,   \* what refresh_token_if_needed returned ("none": it has not)
    load_error,       \* exception type that left load_to_postgres
    pipelines,        \* dlt.pipeline calls
    runs              \* pipeline.run calls

\* The variables of the extractors and entry points modelled further down.
pipelineVars == << main_pc, sources, failed_sources, invoked, outcomes >>

loopVars == << loop_pc, api_key, from_date, to_date, chunk_days, date_chunks,
              chunk_i, url, params, gets, received, returns, loop_error >>

faireVars == << faire_pc, faire_secrets, faire_resource, faire_more, faire_pending,
               faire_gets, faire_records, faire_error, loads, count, naps, last_nap >>

flattenVars == << raw_kind, raw, ran, emitted >>

tokenVars == << load_pc, token_expires_at, refresh_token, warehouse_id, secrets_toml,
               config_toml, refresh_posts, refresh_result, load_error, pipelines, runs >>

otherVars == << pipelineVars, loopVars, faireVars, flattenVars, tokenVars >>

vars == << extractor, access_token, max_retries, base_delay, fpc, attempt,
           last_exception, data, reqs, sleeps, hist, saved, error, result,
           ppc, cursor, has_next_page, page_count, calls, pages, yielded,
           psleeps, posts, perror, cost, otherVars >>

fetchVars == << fpc, attempt, last_exception, data, reqs, sleeps, hist, saved,
                error, result >>

pagerVars == << ppc, cursor, has_next_page, page_count, calls, pages, yielded,
                psleeps, perror >>

paramVars == << extractor, access_token, max_retries, base_delay >>

graphqlVars == << paramVars, fetchVars, pagerVars, posts, cost >>

-----------------------------------------------------------------------------
(* Bounds of the model *)

MaxRetriesBound == 3      \* max_retries ranges over 0..MaxRetriesBound
MaxPages == 2             \* paging-loop iterations explored per run
MaxRecords == 1           \* records per page range over 0..MaxRecords
MaxDay == 130             \* end dates of a bare chunk_date_range call: day 0..MaxDay of 2024
MaxChunks == 40            \* ... of at most MaxChunks * chunk_days
MaxGets == 3              \* requests.get calls explored per fetch_returns run
MaxFaireGets == 3         \* HTTP requests explored per Faire load
MaxLoads == 2             \* Faire loads explored per process

(* Program constants *)

DefaultMaxRetries == 3        \* max_retries: int = 3
DefaultBaseDelay == 1000      \* base_delay: float = 1.0
DefaultWait == 60             \* headers.get("Retry-After", 60), "60 seconds"
ThrottleCode == 30            \* error.get("code") == 30
ShipHeroPageDelay == 500      \* asyncio.sleep(0.5)
ShopifyPageDelay == 200       \* asyncio.sleep(0.2)
ChunkDays == 100              \* chunk_date_range(from_date, end_date, chunk_days=100)
Threshold == 250              \* if self.count > 250
ThrottleDelay == 3600         \* time.sleep(3.6)
PageLimit == 100              \* "limit": 100
ApiWindowDays == 120          \* API Restriction: Max 120 days per request
LowBudget == 200              \* throttle['currentlyAvailable'] < 200

Null == "null"

-----------------------------------------------------------------------------
(* Provider answers *)

NoPage == [n |-> 0, hasNextPage |-> FALSE, endCursor |-> Null]

Cursors == {Null, "cA", "cB"}

Pages == [n : 0..MaxRecords, hasNextPage : BOOLEAN, endCursor : Cursors]

\* An answer to one session.post: a connection failure (kind "neterr", an
\* aiohttp.ClientError), any other exception raised while the response is read
\* (kind "exc"), or an HTTP response (kind "http") with its status, its
\* Retry-After header ("absent" when missing), the codes of its GraphQL errors
\* array (has_errors FALSE when the body has no "errors" key), the
\* time_remaining text of its first code-30 error, and its data payload.
Resp(kind, status, hdr, has_errors, errors, tr, page) ==
    [kind |-> kind, status |-> status, hdr |-> hdr, has_errors |-> has_errors,
     errors |-> errors, tr |-> tr, page |-> page]

\* The value of the local data before response.json() has returned.
Unbound == Resp("unbound", 0, "absent", FALSE, << >>, "absent", NoPage)

\* What a fetch call returns: nothing yet, an empty mapping, or a page payload.
NoResult == [tag |-> "none", page |-> NoPage]
EmptyResult == [tag |-> "empty", page |-> NoPage]
PageResult(p) == [tag |-> "page", page |-> p]

NetErr == Resp("neterr", 0, "absent", FALSE, << >>, "absent", NoPage)
OtherExc == Resp("exc", 0, "absent", FALSE, << >>, "absent", NoPage)
Http(status, hdr) == Resp("http", status, hdr, FALSE, << >>, "absent", NoPage)
Ok(page) == Resp("http", 200, "absent", FALSE, << >>, "absent", page)
GqlErrors(errors, tr) == Resp("http", 200, "absent", TRUE, errors, tr, NoPage)

\* extensions.cost of a response body: the cost of the query and the
\* throttleStatus (present FALSE: the body carries no cost information).
CostInfo(present, actual, available, maximum, restoreRate) ==
    [present |-> present, actualQueryCost |-> actual,
     currentlyAvailable |-> available, maximumAvailable |-> maximum,
     restoreRate |-> restoreRate]

NoCost == CostInfo(FALSE, 0, 0, 0, 0)

\* The cost informations explored: none, a budget above half of the maximum,
\* one below half, one below the warning threshold.
CostInfos ==
    {NoCost, CostInfo(TRUE, 100, 900, 1000, 50), CostInfo(TRUE, 100, 400, 1000, 50),
     CostInfo(TRUE, 100, 100, 1000, 50)}

\* The four Shopify resources share the transport: the cost informations are
\* explored under the orders loop, the other loops see a body without one.
CostInfosOf(ex) == IF ex = "shopify.orders" THEN CostInfos ELSE {NoCost}

\* if throttle['currentlyAvailable'] < 200: print("WARNING: ...")
ApproachingLimit(c) == c.present /\ c.currentlyAvailable < LowBudget

\* What the transport prints of a cost information, and nothing else it does
\* with it.
CostLog(c) == [info |-> c, warning |-> ApproachingLimit(c)]

RetryAfterHeaders == {"absent", "5", "-5", "soon"}
TimeRemainingTexts == {"absent", "5 seconds", "-5 seconds", "soon"}

FetchPages == {[n |-> 1, hasNextPage |-> FALSE, endCursor |-> Null],
               [n |-> 1, hasNextPage |-> TRUE, endCursor |-> "cA"]}

\* The answers explored for a bare fetch call.
FetchResponses ==
    {NetErr, OtherExc, Http(401, "absent"), Http(400, "absent"), Http(500, "absent")}
    \cup {Http(429, h) : h \in RetryAfterHeaders}
    \cup {Ok(p) : p \in FetchPages}
    \cup {GqlErrors(<< >>, "absent"), GqlErrors(<<5>>, "absent")}
    \cup {GqlErrors(e, t) : e \in {<<ThrottleCode>>, <<5, ThrottleCode>>},
                            t \in TimeRemainingTexts}

\* The answers explored under a paging loop: every page, one answer per branch.
PagerResponses ==
    {NetErr, OtherExc, Http(401, "absent"), Http(400, "absent"), Http(500, "absent"),
     Http(429, "absent"), GqlErrors(<<5>>, "absent"),
     GqlErrors(<<ThrottleCode>>, "absent")}
    \cup {Ok(p) : p \in Pages}

Responses == IF extractor = "direct" THEN FetchResponses ELSE PagerResponses

-----------------------------------------------------------------------------
(* fetch_shiphero_graphql: the decisions of one pass of the retry loop *)

\* int(): the texts that parse, with their values.
IntTexts == {"5", "-5", "60"}
IntOf(s) == CASE s = "5" -> 5
              [] s = "-5" -> -5
              [] OTHER -> DefaultWait

\* str.split()[0]
FirstWord(s) == CASE s = "5 seconds" -> "5"
                  [] s = "-5 seconds" -> "-5"
                  [] s = "60 seconds" -> "60"
                  [] OTHER -> s

\* response.headers.get("Retry-After", 60), before int()
RetryAfterText(r) == IF r.hdr = "absent" THEN "60" ELSE r.hdr

\* error.get("time_remaining", "60 seconds").split()[0]
TimeRemainingText(r) == FirstWord(IF r.tr = "absent" THEN "60 seconds" ELSE r.tr)

\* for attempt in range(max_retries)
LoopRangeOneMore(maxr) == 0..maxr
LoopRange(maxr) == 0..(maxr - 1)

\* base_delay * (2 ** attempt)
Backoff(base, att) == base * (2 ^ att)

\* if attempt < max_retries - 1
MayRetry(att, maxr) == att < maxr - 1

IsRateLimited(r) == r.status = 429
IsUnauthorized(r) == r.status = 401
IsHttpError(r) == r.status >= 400
IsServerError(r) == r.status >= 500

\* the for ... else over data["errors"]: some error has code 30
HasAnyError(r) == Len(r.errors) > 0
HasThrottleError(r) == \E i \in 1..Len(r.errors) : r.errors[i] = ThrottleCode

Continue(delay, lastexc, bind, save) ==
    [act |-> "continue", sleep |-> <<delay>>, lastexc |-> lastexc, bind |-> bind,
     save |-> save]
Raise(lastexc, bind, save) ==
    [act |-> "raise", sleep |-> << >>, lastexc |-> lastexc, bind |-> bind,
     save |-> save]
Break ==
    [act |-> "break", sleep |-> << >>, lastexc |-> "keep", bind |-> TRUE, save |-> 0]

\* except aiohttp.ClientError / except Exception: back off, or raise on the
\* last pass
Handler(exc, att, maxr, base, bind, save) ==
    IF MayRetry(att, maxr)
    THEN Continue(Backoff(base, att), exc, bind, save)
    ELSE Raise(exc, bind, save)

\* raise ShipHeroAPIError inside the try block: the clause
\* "except ShipHeroAPIError: raise" lets it through, whatever the pass.
InTryRaiseCaught(att, maxr, base, bind, save) ==
    Handler("Exception", att, maxr, base, bind, save)
InTryRaise(att, maxr, base, bind, save) == Raise("keep", bind, save)

\* What one pass of the loop does with the answer r: continue (after one
\* sleep), break, or raise ShipHeroAPIError; what it assigns to last_exception
\* ("keep": nothing); whether data was bound; how many error contexts it saved.
AttemptOutcome(r, att, maxr, base) ==
    CASE r.kind = "neterr" -> Handler("ClientError", att, maxr, base, FALSE, 0)
      [] r.kind = "exc" -> Handler("Exception", att, maxr, base, FALSE, 0)
      [] OTHER ->
        IF IsRateLimited(r)
        THEN IF RetryAfterText(r) \in IntTexts
             THEN Continue(IntOf(RetryAfterText(r)) * 1000, "keep", FALSE, 0)
             ELSE Handler("Exception", att, maxr, base, FALSE, 0)
        ELSE IF IsUnauthorized(r)
        THEN InTryRaise(att, maxr, base, FALSE, 0)
        ELSE IF IsHttpError(r)
        THEN IF IsServerError(r) /\ MayRetry(att, maxr)
             THEN Continue(Backoff(base, att), "keep", FALSE, 1)
             ELSE InTryRaise(att, maxr, base, FALSE, 1)
        ELSE IF r.has_errors
        THEN IF HasThrottleError(r)
             THEN IF TimeRemainingText(r) \in IntTexts
                  THEN Continue(IntOf(TimeRemainingText(r)) * 1000, "keep", TRUE, 0)
                  ELSE Handler("Exception", att, maxr, base, TRUE, 0)
             ELSE InTryRaise(att, maxr, base, TRUE, 1)
        ELSE Break

-----------------------------------------------------------------------------
(* fetch_shiphero_graphql *)

FetchLocalsInit ==
    /\ attempt = 0
    /\ last_exception = "None"
    /\ data = Unbound
    /\ reqs = 0
    /\ sleeps = << >>
    /\ hist = << >>
    /\ saved = 0
    /\ error = "None"
    /\ result = NoResult

IsShipHero == extractor \in {"direct", "shiphero.products", "shiphero.orders"}

\* The token check that precedes the loop.
FetchEnter ==
    /\ fpc = "entry"
    /\ IsShipHero
    /\ IF ~access_token
       THEN fpc' = "raised" /\ error' = "ShipHeroAPIError"
       ELSE /\ fpc' = IF 0 \in LoopRange(max_retries) THEN "loop" ELSE "after_loop"
            /\ error' = error
    /\ UNCHANGED << attempt, last_exception, data, reqs, sleeps, hist, saved, result >>
    /\ UNCHANGED << paramVars, pagerVars, posts, cost, otherVars >>

\* One pass of the retry loop: the request, the provider's answer r, and the
\* branch taken on it, its sleep included.
FetchAttempt(r) ==
    /\ fpc = "loop"
    /\ attempt \in LoopRange(max_retries)
    /\ LET o == AttemptOutcome(r, attempt, max_retries, base_delay) IN
        /\ reqs' = reqs + 1
        /\ posts' = posts + 1
        /\ hist' = Append(hist, r)
        /\ sleeps' = sleeps \o o.sleep
        /\ saved' = saved + o.save
        /\ last_exception' = IF o.lastexc = "keep" THEN last_exception ELSE o.lastexc
        /\ data' = IF o.bind THEN r ELSE data
        /\ attempt' = IF o.act = "continue" THEN attempt + 1 ELSE attempt
        /\ error' = IF o.act = "raise" THEN "ShipHeroAPIError" ELSE error
        /\ fpc' = CASE o.act = "raise" -> "raised"
                    [] o.act = "break" -> "after_loop"
                    [] OTHER -> IF attempt + 1 \in LoopRange(max_retries)
                                THEN "loop" ELSE "after_loop"
    /\ UNCHANGED result
    /\ UNCHANGED << paramVars, pagerVars, cost, otherVars >>

\* data.get("data", {}) of the bound body: the payload of an answer without
\* errors, nothing ("empty") for an errors body.
ResultData(d) == IF d.has_errors THEN EmptyResult ELSE PageResult(d.page)

\* The code after the loop: the last_exception check, then the return.
FetchFinish ==
    /\ fpc = "after_loop"
    /\ IF last_exception # "None"
       THEN fpc' = "raised" /\ error' = "ShipHeroAPIError" /\ result' = result
       ELSE IF data = Unbound
       THEN fpc' = "raised" /\ error' = "UnboundLocalError" /\ result' = result
       ELSE fpc' = "returned" /\ result' = ResultData(data) /\ error' = error
    /\ UNCHANGED << attempt, last_exception, data, reqs, sleeps, hist, saved >>
    /\ UNCHANGED << paramVars, pagerVars, posts, cost, otherVars >>

FetchDone == fpc \in {"returned", "raised"}

-----------------------------------------------------------------------------
(* A bare call of fetch_shiphero_graphql *)

BaseDelays == {DefaultBaseDelay, 2 * DefaultBaseDelay}

PagerIdle ==
    /\ ppc = "idle"
    /\ cursor = Null
    /\ has_next_page = TRUE
    /\ page_count = 0
    /\ calls = << >>
    /\ pages = << >>
    /\ yielded = << >>
    /\ psleeps = << >>
    /\ posts = 0
    /\ perror = "None"
    /\ cost = CostLog(NoCost)

\* The extractors and entry points that do not run.
PipelineIdle ==
    /\ main_pc = "idle"
    /\ sources = << >>
    /\ failed_sources = << >>
    /\ invoked = << >>
    /\ outcomes = << >>

\* A date text "YYYY-MM-DD" is the tuple <<YYYY, MM, DD>>; NoDate: None.
NoDate == <<0, 0, 0>>

\* The params of a request (present FALSE: None).
Params(present, from, to) == [present |-> present, from |-> from, to |-> to]
NoParams == Params(FALSE, NoDate, NoDate)

LoopIdle ==
    /\ loop_pc = "idle"
    /\ api_key = TRUE
    /\ from_date = NoDate
    /\ to_date = NoDate
    /\ chunk_days = 0
    /\ date_chunks = << >>
    /\ chunk_i = 0
    /\ url = Null
    /\ params = NoParams
    /\ gets = << >>
    /\ received = << >>
    /\ returns = << >>
    /\ loop_error = "None"

AllSecrets ==
    [application_id |-> TRUE, application_secret |-> TRUE, access_token |-> TRUE]

FaireIdle ==
    /\ faire_pc = "idle"
    /\ faire_secrets = AllSecrets
    /\ faire_resource = "orders"
    /\ faire_more = FALSE
    /\ faire_pending = 0
    /\ faire_gets = 0
    /\ faire_records = 0
    /\ faire_error = "None"
    /\ loads = 0
    /\ count = 0
    /\ naps = 0
    /\ last_nap = 0

\* The transformers faire_source chains to the two raw resources.
OrderTransformers == {"faire_orders", "faire_order_items", "faire_order_shipments"}
ProductTransformers ==
    {"faire_products", "faire_product_variants", "faire_product_variant_option_sets",
     "faire_product_attributes", "faire_variant_prices"}
Transformers == OrderTransformers \cup ProductTransformers

\* None
PyNone == [type |-> "none", val |-> "None"]

FlattenIdle ==
    /\ raw_kind = "none"
    /\ raw = [id |-> PyNone]
    /\ ran = {}
    /\ emitted = [t \in Transformers |-> << >>]

\* A token_expires_at entry (present FALSE: no entry), as the instant of its
\* ISO text in seconds.
Expiry(present, at) == [present |-> present, at |-> at]
NoExpiry == Expiry(FALSE, 0)

TokenIdle ==
    /\ load_pc = "idle"
    /\ token_expires_at = NoExpiry
    /\ refresh_token = TRUE
    /\ warehouse_id = TRUE
    /\ secrets_toml = "tok_old"
    /\ config_toml = NoExpiry
    /\ refresh_posts = << >>
    /\ refresh_result = "none"
    /\ load_error = "None"
    /\ pipelines = 0
    /\ runs = 0

OtherIdle == PipelineIdle /\ LoopIdle /\ FaireIdle /\ FlattenIdle /\ TokenIdle

Init ==
    /\ extractor = "direct"
    /\ access_token \in BOOLEAN
    /\ max_retries \in 0..MaxRetriesBound
    /\ base_delay \in BaseDelays
    /\ fpc = "entry"
    /\ FetchLocalsInit
    /\ PagerIdle
    /\ OtherIdle

Next ==
    \/ FetchEnter
    \/ \E r \in Responses : FetchAttempt(r)
    \/ FetchFinish

Spec == Init /\ [][Next]_vars

\* The event loop resumes the one running coroutine after every await.
FairSpec == Spec /\ WF_vars(Next)

-----------------------------------------------------------------------------
(* Properties of a bare call of fetch_shiphero_graphql *)

IsNetErr(r) == r.kind = "neterr"
IsOk(r) == r.kind = "http" /\ r.status = 200 /\ ~r.has_errors
IsStatus(r, st) == r.kind = "http" /\ r.status = st
IsThrottleSignal(r) ==
    \/ IsStatus(r, 429)
    \/ r.kind = "http" /\ r.status = 200 /\ r.has_errors
       /\ \E i \in 1..Len(r.errors) : r.errors[i] = 30
Last(h) == h[Len(h)]

\* C1: k < max_retries consecutive network errors followed by a 200 without
\* GraphQL errors make the call return that response's data; no
\* ShipHeroAPIError reaches the caller.
C1_NetworkErrorsAbsorbed ==
    ( /\ FetchDone
      /\ Len(hist) >= 1
      /\ Len(hist) - 1 < max_retries
      /\ IsOk(Last(hist))
      /\ \A i \in 1..(Len(hist) - 1) : IsNetErr(hist[i]) )
    => ( /\ fpc = "returned"
         /\ result = PageResult(Last(hist).page)
         /\ error # "ShipHeroAPIError" )

\* C2: when every one of the max_retries attempts is answered with a throttle
\* signal (429, or a GraphQL error with code 30), the call ends by raising
\* ShipHeroAPIError: it returns nothing and raises no other exception type.
C2_ThrottleExhaustionRaises ==
    ( /\ FetchDone
      /\ max_retries >= 1
      /\ Len(hist) = max_retries
      /\ \A i \in 1..Len(hist) : IsThrottleSignal(hist[i]) )
    => (fpc = "raised" /\ error = "ShipHeroAPIError")

\* C3: with max_retries = 3 and base_delay = 1.0, three consecutive HTTP 500
\* answers are each followed by a sleep (1 s, 2 s, 4 s, in that order) and by a
\* further request, and a 200 after them makes the call return its data
\* without any error.
C3_ThreeBackoffsThenSuccess ==
    ( /\ max_retries = 3
      /\ base_delay = 1000
      /\ Len(hist) >= 3
      /\ \A i \in 1..3 : IsStatus(hist[i], 500) )
    => ( /\ Len(sleeps) >= 3
         /\ <<sleeps[1], sleeps[2], sleeps[3]>> = <<1000, 2000, 4000>>
         /\ error = "None"
         /\ (Len(hist) = 3 => fpc = "loop")
         /\ (Len(hist) = 4 /\ IsOk(hist[4]) /\ FetchDone
                => fpc = "returned" /\ result = PageResult(hist[4].page)) )

\* C4: with max_retries = 3, when every request is answered with HTTP 500 the
\* call raises after exactly 4 requests (the first call plus 3 retries).
C4_FourRequestsOnServerErrors ==
    ( /\ max_retries = 3
      /\ fpc = "raised"
      /\ Len(hist) >= 1
      /\ \A i \in 1..Len(hist) : IsStatus(hist[i], 500) )
    => reqs = 4

\* C5: an HTTP 401 answer never triggers a retry: the pass that receives it
\* is the last one, the call has raised ShipHeroAPIError with exactly one
\* request made for that pass, and neither a sleep nor a request follows it.
C5_UnauthorizedNeverRetried ==
    \A i \in 1..Len(hist) :
        IsStatus(hist[i], 401)
        => ( /\ i = Len(hist)
             /\ fpc = "raised"
             /\ error = "ShipHeroAPIError"
             /\ reqs = i
             /\ Len(sleeps) = i - 1
             /\ ~ENABLED Next )

C5_Witness ==
    /\ Len(hist) = 3
    /\ IsStatus(hist[3], 401)
    /\ IsStatus(hist[1], 500)
    /\ fpc = "raised"

\* C6: the call never retries indefinitely: whatever the provider answers, the
\* number of requests never exceeds max_retries, and the call eventually
\* returns or raises.
C6_BoundedRetries ==
    /\ [](reqs <= max_retries /\ reqs = Len(hist))
    /\ <>FetchDone

C6_Witness ==
    /\ FetchDone
    /\ max_retries = 3
    /\ reqs = 3
    /\ \A i \in 1..3 : IsThrottleSignal(hist[i])

-----------------------------------------------------------------------------
(* fetch_shopify_graphql: one request, no retry, no sleep *)

ShopifyExtractors ==
    {"shopify.orders", "shopify.products", "shopify.customers", "shopify.inventory"}

\* The exception one Shopify request ends with ("None": data["data"] is
\* returned): a connection failure, raise_for_status() on a status of 400 or
\* more, Exception on an "errors" body.
ShopifyErrorWithoutStatusCheck(r) ==
    CASE r.kind = "neterr" -> "ClientError"
      [] r.kind = "exc" -> "Exception"
      [] r.has_errors -> "Exception"
      [] OTHER -> "None"
ShopifyError(r) ==
    CASE r.kind = "neterr" -> "ClientError"
      [] r.kind = "exc" -> "Exception"
      [] r.status >= 400 -> "ClientResponseError"
      [] r.has_errors -> "Exception"
      [] OTHER -> "None"

\* One request with the provider's answer r, whose body carries the cost
\* information c when it is a data body.
ShopifyFetch(r, c) ==
    /\ fpc = "entry"
    /\ extractor \in ShopifyExtractors
    /\ reqs' = reqs + 1
    /\ posts' = posts + 1
    /\ hist' = Append(hist, r)
    /\ IF ShopifyError(r) = "None"
       THEN /\ fpc' = "returned" /\ result' = PageResult(r.page) /\ error' = error
            /\ cost' = CostLog(c)
       ELSE /\ fpc' = "raised" /\ error' = ShopifyError(r) /\ result' = result
            /\ cost' = cost
    /\ UNCHANGED << attempt, last_exception, data, sleeps, saved >>
    /\ UNCHANGED << paramVars, pagerVars, otherVars >>

-----------------------------------------------------------------------------
(* The paging loops: ShipHero products and orders, Shopify orders, products,
   customers and inventory *)

ShipHeroExtractors == {"shiphero.products", "shiphero.orders"}

Extractors == ShipHeroExtractors \cup ShopifyExtractors

\* The variables of one request. filter: the initial filter parameter
\* (updatedFrom, resp. the updated_at query) is part of them.
ShipHeroVariablesDropFilter(cur) == [cursor |-> cur, filter |-> cur = Null]
ShipHeroVariablesFirstPage(cur) == [cursor |-> Null, filter |-> TRUE]
ShipHeroVariables(cur) == [cursor |-> cur, filter |-> TRUE]
ShopifyVariables(ex, cur) == [cursor |-> cur, filter |-> ex # "shopify.inventory"]

Variables(ex, cur) ==
    IF ex \in ShipHeroExtractors THEN ShipHeroVariables(cur)
    ELSE ShopifyVariables(ex, cur)

\* flatten_products, flatten_orders, ...: one record per edge, in order; the
\* record i of the page fetched in iteration k is <<k, i>>.
PageRecords(k, page) == [i \in 1..page.n |-> <<k, i>>]

\* while has_next_page
LoopNeverEnds(hasNext) == TRUE
LoopContinues(hasNext) == hasNext

\* if has_next_page: await asyncio.sleep(...)
PageDelayByBudget(ex, hasNext) ==
    IF ~hasNext THEN << >>
    ELSE IF ex \in ShipHeroExtractors THEN <<ShipHeroPageDelay>>
    ELSE IF cost.info.present
            /\ 2 * cost.info.currentlyAvailable < cost.info.maximumAvailable
    THEN <<(cost.info.actualQueryCost * 1000) \div cost.info.restoreRate>>
    ELSE <<ShopifyPageDelay>>
PageDelayAlways(ex, hasNext) ==
    IF ex \in ShipHeroExtractors THEN <<ShipHeroPageDelay>> ELSE <<ShopifyPageDelay>>
PageDelay(ex, hasNext) ==
    IF ~hasNext THEN << >>
    ELSE IF ex \in ShipHeroExtractors THEN <<ShipHeroPageDelay>>
    ELSE <<ShopifyPageDelay>>

\* The head of one loop iteration: the variables are built and the fetch is
\* called.
PagerIterate ==
    /\ ppc = "loop"
    /\ LoopContinues(has_next_page)
    /\ page_count < MaxPages
    /\ page_count' = page_count + 1
    /\ calls' = Append(calls, Variables(extractor, cursor))
    /\ ppc' = "fetching"
    /\ fpc' = "entry"
    /\ attempt' = 0
    /\ last_exception' = "None"
    /\ data' = Unbound
    /\ reqs' = 0
    /\ sleeps' = << >>
    /\ hist' = << >>
    /\ saved' = 0
    /\ error' = "None"
    /\ result' = NoResult
    /\ UNCHANGED << paramVars, cursor, has_next_page, pages, yielded, psleeps,
                    posts, perror, cost, otherVars >>

\* The rest of the iteration once the fetch returned: data[<resource>], the
\* flattening, the yields, pageInfo, and the delay before the next page.
PagerProcess ==
    /\ ppc = "fetching"
    /\ fpc = "returned"
    /\ IF result.tag # "page"
       THEN /\ ppc' = "raised"
            /\ perror' = "KeyError"
            /\ UNCHANGED << cursor, has_next_page, pages, yielded, psleeps >>
       ELSE /\ pages' = Append(pages, result.page)
            /\ yielded' = yielded \o PageRecords(page_count, result.page)
            /\ has_next_page' = result.page.hasNextPage
            /\ cursor' = result.page.endCursor
            /\ psleeps' = psleeps \o PageDelay(extractor, result.page.hasNextPage)
            /\ ppc' = IF LoopContinues(result.page.hasNextPage) THEN "loop" ELSE "done"
            /\ perror' = perror
    /\ fpc' = "idle"
    /\ UNCHANGED << attempt, last_exception, data, reqs, sleeps, hist, saved,
                    error, result >>
    /\ UNCHANGED << paramVars, page_count, calls, posts, cost, otherVars >>

\* A failed page skipped instead of ending the generator.
PagerFailSkipsPage ==
    /\ ppc = "fetching"
    /\ fpc = "raised"
    /\ ppc' = "loop"
    /\ fpc' = "idle"
    /\ UNCHANGED << attempt, last_exception, data, reqs, sleeps, hist, saved,
                    error, result >>
    /\ UNCHANGED << paramVars, cursor, has_next_page, page_count, calls, pages,
                    yielded, psleeps, posts, perror, cost, otherVars >>

\* The fetch raised: ShipHeroAPIError is logged and re-raised, anything else
\* is not caught; either way the exception ends the generator.
PagerFail ==
    /\ ppc = "fetching"
    /\ fpc = "raised"
    /\ ppc' = "raised"
    /\ perror' = error
    /\ fpc' = "idle"
    /\ UNCHANGED << attempt, last_exception, data, reqs, sleeps, hist, saved,
                    error, result >>
    /\ UNCHANGED << paramVars, cursor, has_next_page, page_count, calls, pages,
                    yielded, psleeps, posts, cost, otherVars >>

PagerInit ==
    /\ extractor \in Extractors
    /\ access_token \in BOOLEAN
    /\ max_retries = DefaultMaxRetries
    /\ base_delay = DefaultBaseDelay
    /\ fpc = "idle"
    /\ FetchLocalsInit
    /\ ppc = "loop"
    /\ cursor = Null
    /\ has_next_page = TRUE
    /\ page_count = 0
    /\ calls = << >>
    /\ pages = << >>
    /\ yielded = << >>
    /\ psleeps = << >>
    /\ posts = 0
    /\ perror = "None"
    /\ cost = CostLog(NoCost)
    /\ OtherIdle

PagerNext ==
    \/ PagerIterate
    \/ FetchEnter
    \/ \E r \in Responses : FetchAttempt(r)
    \/ FetchFinish
    \/ \E r \in Responses, c \in CostInfosOf(extractor) : ShopifyFetch(r, c)
    \/ PagerProcess
    \/ PagerFail

PagerSpec == PagerInit /\ [][PagerNext]_vars

-----------------------------------------------------------------------------
(* Properties of the paging loops *)

RECURSIVE RecordsOfPages(_, _)
\* The records of the first k pages of ps, page by page, in order.
RecordsOfPages(ps, k) ==
    IF k = 0 THEN << >>
    ELSE RecordsOfPages(ps, k - 1) \o [i \in 1..ps[k].n |-> <<k, i>>]

\* C7: when the fetch of page k raises in ShipHero products/orders, the
\* generator ends with that error, no record of page k is yielded, no request
\* for a later page is issued, and the records yielded so far are exactly
\* those of pages 1..k-1, in order.
C7_FatalFailureAborts ==
    (extractor \in ShipHeroExtractors /\ error # "None")
    => ( /\ Len(pages) = page_count - 1
         /\ Len(calls) = page_count
         /\ yielded = RecordsOfPages(pages, page_count - 1)
         /\ ppc \in {"fetching", "raised"}
         /\ ppc = "fetching" => fpc = "raised"
         /\ ppc = "raised" => (perror = error /\ ~ENABLED PagerNext) )

C7_Witness ==
    /\ extractor = "shiphero.products"
    /\ ppc = "raised"
    /\ perror = "ShipHeroAPIError"
    /\ page_count = 2
    /\ Len(yielded) = 1
    /\ Len(hist) = 3

C9_LaterRequestsOmitFilter ==
    \A i \in 2..Len(calls) : ~calls[i].filter

\* C9 amended: every request of a fetch, the first one and every later one
\* with its non-null cursor alike, carries the same initial filter parameter
\* next to the cursor (the Shopify inventory loop, which has no filter
\* parameter, sends the cursor alone on every request).
C9_EveryRequestKeepsFilter ==
    \A i \in 1..Len(calls) :
        /\ calls[i].filter = (extractor # "shopify.inventory")
        /\ calls[i].filter = calls[1].filter

C9_Witness ==
    /\ Len(calls) = 2
    /\ calls[2].cursor # Null
    /\ calls[2].filter
    /\ extractor = "shopify.orders"
    /\ fpc = "returned"

\* C10: for an error-free sequence of n pages whose last page reports no next
\* page, the ShipHero loop calls fetch_shiphero_graphql exactly n times, and
\* the cursors it sends are null, then the unmodified endCursor of each
\* preceding page, in order.
C10_CursorThreading ==
    extractor \in ShipHeroExtractors
    => ( /\ \A i \in 1..Len(calls) :
               calls[i].cursor = IF i = 1 THEN Null ELSE pages[i - 1].endCursor
         /\ ppc = "done" => (Len(calls) = Len(pages) /\ page_count = Len(pages)) )

C10_Witness ==
    /\ extractor = "shiphero.orders"
    /\ ppc = "done"
    /\ Len(pages) = 2
    /\ pages[1].endCursor = "cA"
    /\ calls[2].cursor = "cA"

-----------------------------------------------------------------------------
(* Properties of the delays *)

Max(a, b) == IF a >= b THEN a ELSE b

\* The delay an adaptive budget tracker would compute from a cost information:
\* max(min_delay, cost / restoreRate) below half of the maximum, the minimum
\* delay otherwise.
BudgetDelay(c) ==
    IF c.present /\ 2 * c.currentlyAvailable < c.maximumAvailable
    THEN Max(ShopifyPageDelay, (c.actualQueryCost * 1000) \div c.restoreRate)
    ELSE ShopifyPageDelay

LowBudgetInfo == CostInfo(TRUE, 100, 400, 1000, 50)

\* C11, as stated: in a Shopify paging loop the delay before the next call is
\* derived from the cost information of the last response: 2 s after
\* available=400, maximum=1000, restoreRate=50/s, cost 100, and nothing beyond
\* the minimum delay when available is at least half of the maximum.
C11_DelayFollowsBudget ==
    (extractor \in ShopifyExtractors /\ ppc = "loop" /\ Len(pages) >= 1)
        => Last(psleeps) = BudgetDelay(cost.info)

\* C11, amended: the cost information is only printed (with a warning below
\* 200 available points); the delay before the next Shopify call is the fixed
\* 0.2 s whatever the last response reported, the budget of 400 of 1000
\* included.
C11_DelayIgnoresBudget ==
    (extractor \in ShopifyExtractors /\ ppc = "loop" /\ Len(pages) >= 1)
        => /\ Last(psleeps) = ShopifyPageDelay
           /\ cost.warning = (cost.info.present /\ cost.info.currentlyAvailable < LowBudget)

C11_Witness ==
    /\ extractor = "shopify.orders"
    /\ ppc = "loop"
    /\ Len(pages) = 1
    /\ cost.info = LowBudgetInfo
    /\ psleeps = <<ShopifyPageDelay>>

\* C12: in every paging loop a sleep of the fixed minimum delay (0.5 s
\* ShipHero, 0.2 s Shopify) lies between any two consecutive page requests
\* (when request k is made the generator has slept k-1 times), and the
\* generator does not sleep after its last page.
C12_SleepBetweenPages ==
    (extractor \in Extractors) =>
        /\ \A i \in 1..Len(psleeps) :
              psleeps[i] = IF extractor \in ShipHeroExtractors
                           THEN ShipHeroPageDelay ELSE ShopifyPageDelay
        /\ (ppc = "fetching") => (Len(psleeps) = Len(calls) - 1)
        /\ (ppc = "done") => (Len(calls) = Len(pages) /\ Len(psleeps) = Len(pages) - 1)
        /\ (ppc = "raised") => (Len(psleeps) = Len(calls) - 1)

C12_Witness ==
    /\ extractor = "shiphero.products"
    /\ ppc = "done"
    /\ Len(pages) = 2
    /\ psleeps = <<ShipHeroPageDelay>>

\* C13: every delay fetch_shiphero_graphql passes to asyncio.sleep is
\* non-negative, whatever the provider answers: the backoff, the Retry-After
\* wait and the time_remaining wait of a code-30 error.
C13_DelaysNonNegative ==
    \A i \in 1..Len(sleeps) : sleeps[i] >= 0

-----------------------------------------------------------------------------
(* run_pipeline.main *)

\* The loaders of the three try blocks, in the order of the blocks.
Loaders == <<"Shopify", "Faire", "ShipHero">>

\* How a loader call ends: it returns, or it raises. KeyboardInterrupt stands
\* for the exceptions that are not subclasses of Exception.
Exceptions == {"ValueError", "KeyError", "ShipHeroAPIError", "Exception"}
LoaderOutcomes == {"return", "KeyboardInterrupt"} \cup Exceptions

\* except Exception as e
CaughtOnlyValueError(o) == o = "ValueError"
Caught(o) == o \in Exceptions

\* No GraphQL extractor runs on its own.
GraphqlIdle ==
    /\ extractor = "none"
    /\ access_token = TRUE
    /\ max_retries = DefaultMaxRetries
    /\ base_delay = DefaultBaseDelay
    /\ fpc = "idle"
    /\ FetchLocalsInit
    /\ PagerIdle

\* setup_logging(), the banner, sources = [], failed_sources = []
MainStart ==
    /\ main_pc = "start"
    /\ sources' = << >>
    /\ failed_sources' = << >>
    /\ main_pc' = "block1"
    /\ UNCHANGED << invoked, outcomes, graphqlVars, loopVars, faireVars, flattenVars, tokenVars >>

BlockPc(i) == CASE i = 1 -> "block1" [] i = 2 -> "block2" [] i = 3 -> "block3"
                [] OTHER -> "summary"

\* The try block i: the loader is called and ends with o; its name goes to
\* sources when it returned, to failed_sources when the except clause caught
\* what it raised; anything else leaves main.
MainBlock(i, o) ==
    /\ main_pc = BlockPc(i)
    /\ invoked' = Append(invoked, Loaders[i])
    /\ outcomes' = Append(outcomes, o)
    /\ IF o = "return"
       THEN /\ sources' = Append(sources, Loaders[i])
            /\ failed_sources' = failed_sources
            /\ main_pc' = BlockPc(i + 1)
       ELSE IF Caught(o)
       THEN /\ failed_sources' = Append(failed_sources, Loaders[i])
            /\ sources' = sources
            /\ main_pc' = BlockPc(i + 1)
       ELSE /\ main_pc' = "raised"
            /\ UNCHANGED << sources, failed_sources >>
    /\ UNCHANGED << graphqlVars, loopVars, faireVars, flattenVars, tokenVars >>

\* The summary lines, then main returns.
MainSummary ==
    /\ main_pc = "summary"
    /\ main_pc' = "returned"
    /\ UNCHANGED << sources, failed_sources, invoked, outcomes, graphqlVars,
                    loopVars, faireVars, flattenVars, tokenVars >>

PipelineInit ==
    /\ GraphqlIdle
    /\ TokenIdle
    /\ FlattenIdle
    /\ LoopIdle
    /\ FaireIdle
    /\ main_pc = "start"
    /\ sources = << >>
    /\ failed_sources = << >>
    /\ invoked = << >>
    /\ outcomes = << >>

PipelineNext ==
    \/ MainStart
    \/ \E i \in 1..Len(Loaders), o \in LoaderOutcomes : MainBlock(i, o)
    \/ MainSummary

PipelineSpec == PipelineInit /\ [][PipelineNext]_vars

Occurrences(seq, x) == Cardinality({i \in 1..Len(seq) : seq[i] = x})

\* C14: whatever way each loader ends, by returning or by raising an
\* Exception, main calls load_shopify, load_faire and load_shiphero exactly
\* once each in that order and returns normally, and each source name is then
\* in exactly one of sources and failed_sources.
C14_EveryLoaderRunsOnce ==
    (\A k \in 1..Len(outcomes) : outcomes[k] \in Exceptions \cup {"return"}) =>
        /\ main_pc # "raised"
        /\ invoked = SubSeq(Loaders, 1, Len(invoked))
        /\ (main_pc \in {"summary", "returned"}) =>
              /\ invoked = Loaders
              /\ \A i \in 1..Len(Loaders) :
                    /\ Occurrences(sources, Loaders[i])
                         + Occurrences(failed_sources, Loaders[i]) = 1
                    /\ (Occurrences(sources, Loaders[i]) = 1) <=> (outcomes[i] = "return")
        /\ (main_pc = "summary") => ENABLED MainSummary

C14_Witness ==
    /\ main_pc = "returned"
    /\ outcomes = <<"ValueError", "return", "ShipHeroAPIError">>
    /\ sources = <<"Faire">>
    /\ failed_sources = <<"Shopify", "ShipHero">>

-----------------------------------------------------------------------------
(* loop_returns: dates *)

\* The days of the months of 2024, the year of the default from_date.
MonthLengths == <<31, 29, 31, 30, 31, 30, 31, 31, 30, 31, 30, 31>>

RECURSIVE DaysBefore(_)
\* The days of 2024 before month m.
DaysBefore(m) == IF m = 1 THEN 0 ELSE DaysBefore(m - 1) + MonthLengths[m - 1]

\* datetime.strptime(text, "%Y-%m-%d"): the datetime, as days since 2024-01-01.
Strptime(text) == DaysBefore(text[2]) + text[3] - 1

RECURSIVE MonthOf(_, _)
MonthOf(n, m) == IF n < MonthLengths[m] THEN m ELSE MonthOf(n - MonthLengths[m], m + 1)

\* datetime.strftime("%Y-%m-%d") of the day n of 2024.
Strftime(n) == LET m == MonthOf(n, 1) IN <<2024, m, n - DaysBefore(m) + 1>>

Min(a, b) == IF a <= b THEN a ELSE b

\* chunk_end = min(current + timedelta(days=chunk_days), end)
ChunkEndOneDayMore(current, end, days) == Min(current + days + 1, end)
ChunkEnd(current, end, days) == Min(current + days, end)

\* current = chunk_end
NextStartDayAfter(chunk_end) == chunk_end + 1
NextStart(chunk_end) == chunk_end

RECURSIVE ChunkLoop(_, _, _, _)
\* while current < end: ... chunks.append(...); current = chunk_end
ChunkLoop(current, end, days, chunks) ==
    IF current < end
    THEN LET chunk_end == ChunkEnd(current, end, days) IN
         ChunkLoop(NextStart(chunk_end), end, days,
                   Append(chunks, <<Strftime(current), Strftime(chunk_end)>>))
    ELSE chunks

chunk_date_range(start_date, end_date, days) ==
    ChunkLoop(Strptime(start_date), Strptime(end_date), days, << >>)

-----------------------------------------------------------------------------
(* loop_returns: sanitize_return *)

\* A JSON value: a text or a mapping (a function from its keys to values).
Str(t) == [type |-> "str", val |-> t]
Dict(d) == [type |-> "dict", val |-> d]

\* isinstance(v, dict)
IsDict(v) == v.type = "dict"

\* dict.pop(k, None)
Pop(d, k) == [x \in (DOMAIN d) \ {k} |-> d[x]]

sanitize_return_top_level_only(item) ==
    Pop(Pop(item, "customer"), "status_page_url")
sanitize_return(item) ==
    LET top == Pop(Pop(item, "customer"), "status_page_url") IN
    IF "return_method" \in DOMAIN top /\ IsDict(top["return_method"])
    THEN [top EXCEPT !["return_method"] =
              Dict(Pop(Pop(@.val, "address"), "qr_code_url"))]
    ELSE top

\* The return records explored: every PII field present, none present, a
\* return_method that is not a mapping, no return_method, PII in the
\* return_method only.
ReturnAllPii ==
    [id |-> Str("r1"), state |-> Str("open"), customer |-> Str("a@b.c"),
     status_page_url |-> Str("https://s/1"),
     return_method |-> Dict([type |-> Str("mail"), address |-> Str("1 Main St"),
                             qr_code_url |-> Str("https://q/1")])]
ReturnNoPii ==
    [id |-> Str("r2"), return_method |-> Dict([type |-> Str("store")])]
ReturnTextMethod ==
    [id |-> Str("r3"), customer |-> Str("d@e.f"), return_method |-> Str("mail")]
ReturnNoMethod ==
    [id |-> Str("r4"), state |-> Str("closed"), status_page_url |-> Str("https://s/4")]
ReturnMethodPii ==
    [id |-> Str("r5"),
     return_method |-> Dict([type |-> Str("mail"), address |-> Str("2 Side St")])]

ItemLists ==
    {<< >>, <<ReturnAllPii>>, <<ReturnNoPii>>, <<ReturnTextMethod>>, <<ReturnNoMethod>>,
     <<ReturnMethodPii, ReturnAllPii>>}

-----------------------------------------------------------------------------
(* loop_returns: fetch_returns *)

BaseUrl == "https://api.loopreturns.com/api/v1/warehouse/return/list"

\* The answer to one requests.get: a status raise_for_status() raises on
\* (kind "error"), a JSON object with its "returns" and "nextPageUrl" (kind
\* "dict"), a JSON array (kind "list"), any other JSON value (kind "other").
Body(kind, items, next) == [kind |-> kind, items |-> items, next |-> next]

LoopAnswers ==
    {Body("error", << >>, Null), Body("other", << >>, Null)}
    \cup {Body("dict", i, n) : i \in ItemLists, n \in {Null, "https://loop/next", BaseUrl}}
    \cup {Body("list", i, Null) : i \in {<< >>, <<ReturnAllPii>>}}

\* items and next_url of a body
ItemsOf(body) == IF body.kind \in {"dict", "list"} THEN body.items ELSE << >>
NextUrlOf(body) == IF body.kind = "dict" THEN body.next ELSE Null

\* datetime.now().strftime("%Y-%m-%d"): the days a run is explored on.
Todays == {Strftime(250)}

\* headers = get_loop_auth_headers(); end_date; date_chunks
LoopEnter(today) ==
    /\ loop_pc = "entry"
    /\ IF ~api_key
       THEN /\ loop_pc' = "raised"
            /\ loop_error' = "ValueError"
            /\ UNCHANGED << chunk_days, date_chunks >>
       ELSE /\ chunk_days' = ChunkDays
            /\ date_chunks' = chunk_date_range(
                   from_date, IF to_date # NoDate THEN to_date ELSE today, ChunkDays)
            /\ loop_pc' = "for"
            /\ loop_error' = loop_error
    /\ UNCHANGED << api_key, from_date, to_date, chunk_i, url, params, gets, received,
                    returns >>
    /\ UNCHANGED << graphqlVars, pipelineVars, faireVars, flattenVars, tokenVars >>

\* params = {"paginate": "true", "pageSize": 100, "from": chunk_from,
\*           "to": chunk_to, "filter": "updated_at"}
ChunkParamsOfFirst(chunks, i) == Params(TRUE, chunks[1][1], chunks[1][2])
ChunkParams(chunks, i) == Params(TRUE, chunks[i][1], chunks[i][2])

\* if not next_url or len(items) == 0: break
LastPageByUrlOnly(next_url, items) == next_url = Null
LastPage(next_url, items) == next_url = Null \/ Len(items) = 0

\* for chunk_from, chunk_to in date_chunks: params = {...}; url = base_url
LoopChunk ==
    /\ loop_pc = "for"
    /\ IF chunk_i < Len(date_chunks)
       THEN /\ chunk_i' = chunk_i + 1
            /\ params' = ChunkParams(date_chunks, chunk_i + 1)
            /\ url' = BaseUrl
            /\ loop_pc' = "while"
       ELSE /\ loop_pc' = "done"
            /\ UNCHANGED << chunk_i, params, url >>
    /\ UNCHANGED << api_key, from_date, to_date, chunk_days, date_chunks, gets,
                    received, returns, loop_error >>
    /\ UNCHANGED << graphqlVars, pipelineVars, faireVars, flattenVars, tokenVars >>

\* One pass of "while url": the request, the body, the yields, the break or
\* the move to the next page.
LoopGet(body) ==
    /\ loop_pc = "while"
    /\ url # Null
    /\ Len(gets) < MaxGets
    /\ gets' = Append(gets, [chunk |-> chunk_i, url |-> url,
                             params |-> IF url = BaseUrl THEN params ELSE NoParams,
                             body |-> body])
    /\ IF body.kind = "error"
       THEN /\ loop_pc' = "raised"
            /\ loop_error' = "HTTPError"
            /\ UNCHANGED << url, params, received, returns >>
       ELSE /\ received' = received \o ItemsOf(body)
            /\ returns' = returns \o [i \in 1..Len(ItemsOf(body)) |->
                                         sanitize_return(ItemsOf(body)[i])]
            /\ loop_error' = loop_error
            /\ IF LastPage(NextUrlOf(body), ItemsOf(body))
               THEN loop_pc' = "for" /\ UNCHANGED << url, params >>
               ELSE loop_pc' = "while" /\ url' = NextUrlOf(body) /\ params' = NoParams
    /\ UNCHANGED << api_key, from_date, to_date, chunk_days, date_chunks, chunk_i >>
    /\ UNCHANGED << graphqlVars, pipelineVars, faireVars, flattenVars, tokenVars >>

\* A bare call chunk_date_range(start_date, end_date, chunk_days)
ChunkCall ==
    /\ loop_pc = "call"
    /\ date_chunks' = chunk_date_range(from_date, to_date, chunk_days)
    /\ loop_pc' = "called"
    /\ UNCHANGED << api_key, from_date, to_date, chunk_days, chunk_i, url, params,
                    gets, received, returns, loop_error >>
    /\ UNCHANGED << graphqlVars, pipelineVars, faireVars, flattenVars, tokenVars >>

CallFromDays == {0, 1, 59}
CallChunkDays == {1, 2, 7, ChunkDays}
FetchFromDates == {<<2024, 1, 1>>, Strftime(100)}
FetchToDates == {NoDate, <<2024, 1, 1>>, Strftime(50), Strftime(150)}

LoopInit ==
    /\ GraphqlIdle
    /\ TokenIdle
    /\ FlattenIdle
    /\ PipelineIdle
    /\ FaireIdle
    /\ date_chunks = << >>
    /\ chunk_i = 0
    /\ url = Null
    /\ params = NoParams
    /\ gets = << >>
    /\ received = << >>
    /\ returns = << >>
    /\ loop_error = "None"
    /\ \/ /\ loop_pc = "entry"
          /\ api_key \in BOOLEAN
          /\ from_date \in FetchFromDates
          /\ to_date \in FetchToDates
          /\ chunk_days = 0
       \/ /\ loop_pc = "call"
          /\ api_key = TRUE
          /\ from_date \in {Strftime(d) : d \in CallFromDays}
          /\ chunk_days \in CallChunkDays
          /\ to_date \in {Strftime(d) : d \in 0..Min(MaxDay, MaxChunks * chunk_days)}

LoopNext ==
    \/ \E today \in Todays : LoopEnter(today)
    \/ LoopChunk
    \/ \E body \in LoopAnswers : LoopGet(body)
    \/ ChunkCall

LoopSpec == LoopInit /\ [][LoopNext]_vars

-----------------------------------------------------------------------------
(* Properties of loop_returns *)

\* The keys sanitize_return removes from a record and from its return_method.
PiiKeys == {"customer", "status_page_url"}
MethodPiiKeys == {"address", "qr_code_url"}

\* The mapping after is the mapping before without the keys in removed,
\* every other key with the value it had.
SameBut(after, before, removed) ==
    /\ DOMAIN after = (DOMAIN before) \ removed
    /\ \A k \in DOMAIN after : after[k] = before[k]

\* C16: every record fetch_returns yields, on every page of every date chunk,
\* has no customer and no status_page_url key, its return_method, when a
\* mapping, has no address and no qr_code_url key, and every other key is as
\* received.
C16_YieldedRecordsSanitized ==
    /\ Len(returns) = Len(received)
    /\ \A i \in 1..Len(returns) :
          LET y == returns[i]
              r == received[i]
              hasDict(d) == "return_method" \in DOMAIN d /\ IsDict(d["return_method"])
          IN  /\ (DOMAIN y) \cap PiiKeys = {}
              /\ DOMAIN y = (DOMAIN r) \ PiiKeys
              /\ hasDict(y) <=> hasDict(r)
              /\ hasDict(y) =>
                    /\ (DOMAIN y["return_method"].val) \cap MethodPiiKeys = {}
                    /\ SameBut(y["return_method"].val, r["return_method"].val,
                               MethodPiiKeys)
              /\ \A k \in DOMAIN y :
                    (k # "return_method" \/ ~hasDict(y)) => y[k] = r[k]

C16_Witness ==
    /\ loop_pc = "for"
    /\ chunk_i = 2
    /\ Len(gets) = 3
    /\ gets[2].url # BaseUrl
    /\ received = <<ReturnAllPii, ReturnMethodPii, ReturnAllPii, ReturnTextMethod>>

\* The days between the two dates of a pair.
SpanDays(from, to) == Strptime(to) - Strptime(from)

\* C17: every (from, to) pair chunk_date_range returns has from < to and
\* spans at most chunk_days days, whatever start_date < end_date and
\* chunk_days >= 1; with the 100 days fetch_returns passes, no request spans
\* more than 120 days.
C17_ChunksWithinWindow ==
    /\ \A i \in 1..Len(date_chunks) :
          /\ SpanDays(date_chunks[i][1], date_chunks[i][2]) > 0
          /\ SpanDays(date_chunks[i][1], date_chunks[i][2]) <= chunk_days
    /\ \A j \in 1..Len(gets) :
          gets[j].params.present =>
              /\ SpanDays(gets[j].params.from, gets[j].params.to) > 0
              /\ SpanDays(gets[j].params.from, gets[j].params.to) <= ApiWindowDays

C17_Witness ==
    /\ loop_pc = "called"
    /\ chunk_days = 7
    /\ from_date = <<2024, 2, 29>>
    /\ date_chunks = << << <<2024, 2, 29>>, <<2024, 3, 7>> >>,
                        << <<2024, 3, 7>>, <<2024, 3, 10>> >> >>

-----------------------------------------------------------------------------
(* faire: RequestCounter *)

\* if self.count > 250
ThrottledFromThreshold(c) == c >= Threshold
Throttled(c) == c > Threshold

\* RequestCounter.increment: the new count and the delay slept (0: none).
Increment(c) ==
    [count |-> c + 1, nap |-> IF Throttled(c + 1) THEN ThrottleDelay ELSE 0]

-----------------------------------------------------------------------------
(* faire: load_to_postgres and the raw resources *)

\* if not all([application_id, application_secret, access_token])
HasAppCredentials(sec) == sec.application_id /\ sec.application_secret
HasAllSecrets(sec) == sec.application_id /\ sec.application_secret /\ sec.access_token

\* load_to_postgres: request_counter.reset(), then the pipeline runs the source.
FaireLoad ==
    /\ faire_pc \in {"start", "done", "raised"}
    /\ loads < MaxLoads
    /\ loads' = loads + 1
    /\ count' = 0
    /\ naps' = 0
    /\ last_nap' = 0
    /\ faire_resource' = "orders"
    /\ faire_pc' = "entry"
    /\ faire_more' = FALSE
    /\ faire_pending' = 0
    /\ faire_gets' = 0
    /\ faire_records' = 0
    /\ faire_error' = "None"
    /\ UNCHANGED faire_secrets
    /\ UNCHANGED << graphqlVars, pipelineVars, loopVars, flattenVars, tokenVars >>

\* The head of a raw resource: headers = get_faire_auth_headers(), the
\* configuration, rest_api_source(config).
FaireEnter ==
    /\ faire_pc = "entry"
    /\ IF ~HasAllSecrets(faire_secrets)
       THEN faire_pc' = "raised" /\ faire_error' = "ValueError" /\ faire_more' = faire_more
       ELSE faire_pc' = "paging" /\ faire_more' = TRUE /\ faire_error' = faire_error
    /\ UNCHANGED << faire_secrets, faire_resource, faire_pending, faire_gets,
                    faire_records, loads, count, naps, last_nap >>
    /\ UNCHANGED << graphqlVars, pipelineVars, loopVars, flattenVars, tokenVars >>

\* The REST client asks for the next page: it fails (ok FALSE), or it brings
\* n records and, with more, a cursor to a further page.
FaireGet(ok, n, more) ==
    /\ faire_pc = "paging"
    /\ faire_pending = 0
    /\ faire_more
    /\ faire_gets < MaxFaireGets
    /\ faire_gets' = faire_gets + 1
    /\ IF ok
       THEN /\ faire_pending' = n
            /\ faire_more' = more
            /\ UNCHANGED << faire_pc, faire_error >>
       ELSE /\ faire_pc' = "raised"
            /\ faire_error' = "HTTPError"
            /\ UNCHANGED << faire_pending, faire_more >>
    /\ UNCHANGED << faire_secrets, faire_resource, faire_records, loads, count, naps,
                    last_nap >>
    /\ UNCHANGED << graphqlVars, pipelineVars, loopVars, flattenVars, tokenVars >>

\* One pass of "for order in source.with_resources(...)": the counter is
\* incremented, then the record is yielded.
FaireYield ==
    /\ faire_pc = "paging"
    /\ faire_pending > 0
    /\ count' = Increment(count).count
    /\ last_nap' = Increment(count).nap
    /\ naps' = IF Increment(count).nap > 0 THEN naps + 1 ELSE naps
    /\ faire_pending' = faire_pending - 1
    /\ faire_records' = faire_records + 1
    /\ UNCHANGED << faire_pc, faire_secrets, faire_resource, faire_more, faire_gets,
                    faire_error, loads >>
    /\ UNCHANGED << graphqlVars, pipelineVars, loopVars, flattenVars, tokenVars >>

\* The client has no further page: the orders resource is exhausted and the
\* products resource starts, or the load is complete.
FaireExhausted ==
    /\ faire_pc = "paging"
    /\ faire_pending = 0
    /\ ~faire_more
    /\ IF faire_resource = "orders"
       THEN faire_resource' = "products" /\ faire_pc' = "entry"
       ELSE faire_resource' = faire_resource /\ faire_pc' = "done"
    /\ UNCHANGED << faire_secrets, faire_more, faire_pending, faire_gets,
                    faire_records, faire_error, loads, count, naps, last_nap >>
    /\ UNCHANGED << graphqlVars, pipelineVars, loopVars, flattenVars, tokenVars >>

PageSizes == {0, 1, PageLimit}

FaireInit ==
    /\ GraphqlIdle
    /\ TokenIdle
    /\ FlattenIdle
    /\ PipelineIdle
    /\ LoopIdle
    /\ faire_pc = "start"
    /\ faire_secrets \in [application_id : BOOLEAN, application_secret : BOOLEAN,
                          access_token : BOOLEAN]
    /\ faire_resource = "orders"
    /\ faire_more = FALSE
    /\ faire_pending = 0
    /\ faire_gets = 0
    /\ faire_records = 0
    /\ faire_error = "None"
    /\ loads = 0
    /\ count = 0
    /\ naps = 0
    /\ last_nap = 0

FaireNext ==
    \/ FaireLoad
    \/ FaireEnter
    \/ \E ok \in BOOLEAN, n \in PageSizes, more \in BOOLEAN : FaireGet(ok, n, more)
    \/ FaireYield
    \/ FaireExhausted

FaireSpec == FaireInit /\ [][FaireNext]_vars

\* C18: after a reset the first 250 calls of increment do not sleep and every
\* later call sleeps 3.6 s; the count only grows, by one per call, between
\* resets, and a reset sets it to 0.
C18_ThrottleAfterThreshold ==
    /\ [](/\ naps = Max(0, count - Threshold)
          /\ last_nap = IF count > Threshold THEN ThrottleDelay ELSE 0)
    /\ [][/\ (loads' # loads) => (count' = 0 /\ naps' = 0)
          /\ (loads' = loads) => (count' = count \/ count' = count + 1)
          /\ (loads' = loads /\ count' = count + 1) =>
                (naps' = IF count < Threshold THEN naps ELSE naps + 1)]_vars

C18_Witness ==
    /\ loads = 2
    /\ count = Threshold + 1
    /\ naps = 1
    /\ last_nap = ThrottleDelay

-----------------------------------------------------------------------------
(* The credential checks of the three extractors *)

\* One extractor runs: a bare ShipHero fetch, the Loop Returns resource (or a
\* bare chunk_date_range call), or a Faire load.
ExtractorsInit == Init \/ LoopInit \/ FaireInit

ExtractorsNext == Next \/ LoopNext \/ FaireNext

ExtractorsSpec == ExtractorsInit /\ [][ExtractorsNext]_vars

\* C15: a missing credential is reported before any request: without the
\* access token fetch_shiphero_graphql raises ShipHeroAPIError, without one
\* of application_id, application_secret and access_token a Faire resource
\* raises ValueError, without the API key fetch_returns raises ValueError,
\* and the extractor has then issued no HTTP request.
C15_MissingCredentialBeforeRequest ==
    /\ (extractor = "direct" /\ ~access_token) =>
          /\ reqs = 0 /\ posts = 0
          /\ fpc \in {"entry", "raised"}
          /\ (fpc = "raised") => (error = "ShipHeroAPIError")
    /\ (/\ faire_pc \notin {"idle", "start"}
        /\ \E k \in {"application_id", "application_secret", "access_token"} :
              ~faire_secrets[k]) =>
          /\ faire_gets = 0 /\ faire_records = 0
          /\ faire_pc \in {"entry", "raised"}
          /\ (faire_pc = "raised") => (faire_error = "ValueError")
    /\ (loop_pc \in {"entry", "for", "while", "done", "raised"} /\ ~api_key) =>
          /\ gets = << >> /\ returns = << >>
          /\ loop_pc \in {"entry", "raised"}
          /\ (loop_pc = "raised") => (loop_error = "ValueError")

C15_Witness ==
    /\ faire_pc = "raised"
    /\ faire_error = "ValueError"
    /\ faire_secrets.application_id
    /\ faire_secrets.application_secret
    /\ ~faire_secrets.access_token
    /\ faire_gets = 0

-----------------------------------------------------------------------------
(* faire: the flattening functions *)

\* A JSON array.
List(l) == [type |-> "list", val |-> l]

\* A key a mapping does not have (used to build the records explored).
Absent == [type |-> "absent", val |-> "absent"]

\* dict.get(k), dict.get(k, default)
Get(d, k) == IF k \in DOMAIN d THEN d[k] ELSE PyNone
GetOr(d, k, default) == IF k \in DOMAIN d THEN d[k] ELSE default

\* {k: v for k, v in d.items() if k not in keys}
Without(d, keys) == [x \in (DOMAIN d) \ keys |-> d[x]]

\* {..., **extra}: a dict display; a key of extra replaces the same key
\* written before it.
Literal(base, extra) ==
    [x \in (DOMAIN base) \cup (DOMAIN extra) |->
        IF x \in DOMAIN extra THEN extra[x] ELSE base[x]]

\* bool(v)
Truthy(v) == CASE v.type = "none" -> FALSE
               [] v.type = "dict" -> DOMAIN v.val # {}
               [] OTHER -> TRUE

\* f"{product_id}_option_{idx}", f"{product_id}_attr_{idx}": the text made of
\* str(product_id), the word and the index.
SyntheticIdFromOne(product_id, word, idx) ==
    [type |-> "fstr", val |-> <<product_id, word, idx + 1>>]
SyntheticId(product_id, word, idx) ==
    [type |-> "fstr", val |-> <<product_id, word, idx>>]

ItemKeys ==
    {"id", "product_id", "product_option_id", "quantity", "sku", "created_at",
     "updated_at"}

flatten_order_items(order_data) ==
    LET order_id == Get(order_data, "id")
        items == GetOr(order_data, "items", List(<< >>)).val
    IN  [i \in 1..Len(items) |->
            LET item == items[i].val IN
            Literal([id |-> Get(item, "id"),
                     order_id |-> order_id,
                     product_id |-> Get(item, "product_id"),
                     product_option_id |-> Get(item, "product_option_id"),
                     quantity |-> Get(item, "quantity"),
                     sku |-> Get(item, "sku"),
                     created_at |-> Get(item, "created_at"),
                     updated_at |-> Get(item, "updated_at")],
                    Without(item, ItemKeys))]

ShipmentKeys == {"id", "carrier", "tracking_code", "created_at", "updated_at"}

flatten_order_shipments(order_data) ==
    LET order_id == Get(order_data, "id")
        shipments == GetOr(order_data, "shipments", List(<< >>)).val
    IN  [i \in 1..Len(shipments) |->
            LET shipment == shipments[i].val IN
            Literal([id |-> Get(shipment, "id"),
                     order_id |-> order_id,
                     carrier |-> Get(shipment, "carrier"),
                     tracking_code |-> Get(shipment, "tracking_code"),
                     created_at |-> Get(shipment, "created_at"),
                     updated_at |-> Get(shipment, "updated_at")],
                    Without(shipment, ShipmentKeys))]

VariantDropped == {"images", "prices", "measurements", "case_measurements"}
VariantKeys ==
    {"id", "created_at", "updated_at", "name", "sku", "sale_state",
     "lifecycle_state", "available_quantity"}

flatten_product_variants(product_data) ==
    LET product_id == Get(product_data, "id")
        variants == GetOr(product_data, "variants", List(<< >>)).val
    IN  [i \in 1..Len(variants) |->
            LET variant_copy == Without(variants[i].val, VariantDropped) IN
            Literal([id |-> Get(variant_copy, "id"),
                     product_id |-> product_id,
                     created_at |-> Get(variant_copy, "created_at"),
                     updated_at |-> Get(variant_copy, "updated_at"),
                     name |-> Get(variant_copy, "name"),
                     sku |-> Get(variant_copy, "sku"),
                     sale_state |-> Get(variant_copy, "sale_state"),
                     lifecycle_state |-> Get(variant_copy, "lifecycle_state"),
                     available_quantity |-> Get(variant_copy, "available_quantity")],
                    Without(variant_copy, VariantKeys))]

flatten_product_variant_option_sets(product_data) ==
    LET product_id == Get(product_data, "id")
        sets == GetOr(product_data, "variant_option_sets", List(<< >>)).val
    IN  [i \in 1..Len(sets) |->
            [id |-> SyntheticId(product_id, "option", i - 1),
             product_id |-> product_id,
             name |-> Get(sets[i].val, "name"),
             values |-> GetOr(sets[i].val, "values", List(<< >>))]]

flatten_product_attributes(product_data) ==
    LET product_id == Get(product_data, "id")
        attributes == GetOr(product_data, "product_attributes", List(<< >>)).val
    IN  [i \in 1..Len(attributes) |->
            [id |-> SyntheticId(product_id, "attr", i - 1),
             product_id |-> product_id,
             name |-> Get(attributes[i].val, "name"),
             value |-> Get(attributes[i].val, "value")]]

RECURSIVE Concat(_)
\* The sequences of seqs, one after the other.
Concat(seqs) == IF seqs = << >> THEN << >> ELSE Head(seqs) \o Concat(Tail(seqs))

\* price.get("geo_constraint", {}), ...: a mapping without keys by default
NoKeys == [type |-> "dict", val |-> [x \in {} |-> PyNone]]

flatten_variant_prices(product_data) ==
    LET variants == GetOr(product_data, "variants", List(<< >>)).val
        ofVariant(variant) ==
            LET prices == GetOr(variant, "prices", List(<< >>)).val IN
            [j \in 1..Len(prices) |->
                LET geo == GetOr(prices[j].val, "geo_constraint", NoKeys).val
                    wholesale == GetOr(prices[j].val, "wholesale_price", NoKeys).val
                    retail == GetOr(prices[j].val, "retail_price", NoKeys).val
                IN  [variant_id |-> Get(variant, "id"),
                     country |-> Get(geo, "country"),
                     country_group |-> Get(geo, "country_group"),
                     wholesale_price_amount_minor |-> Get(wholesale, "amount_minor"),
                     wholesale_price_currency |-> Get(wholesale, "currency"),
                     retail_price_amount_minor |-> Get(retail, "amount_minor"),
                     retail_price_currency |-> Get(retail, "currency")]]
    IN  Concat([i \in 1..Len(variants) |-> ofVariant(variants[i].val)])

-----------------------------------------------------------------------------
(* faire: the transformers *)

\* order_copy = order.copy(); the pops; yield order_copy
faire_orders_transformer(order) == << Without(order, {"items", "shipments"}) >>

ProductNested == {"images", "variants", "variant_option_sets", "product_attributes"}

faire_products_transformer(product) ==
    LET popped == Without(product, ProductNested)
        taxonomy_type == Get(popped, "taxonomy_type")
        product_copy == Without(popped, {"taxonomy_type"})
    IN  << IF Truthy(taxonomy_type)
           THEN Literal(product_copy,
                        [taxonomy_type_id |-> Get(taxonomy_type.val, "id"),
                         taxonomy_type_name |-> Get(taxonomy_type.val, "name")])
           ELSE product_copy >>

\* What the transformer t yields for the raw record r.
Yields(t, r) ==
    CASE t = "faire_orders" -> faire_orders_transformer(r)
      [] t = "faire_order_items" -> flatten_order_items(r)
      [] t = "faire_order_shipments" -> flatten_order_shipments(r)
      [] t = "faire_products" -> faire_products_transformer(r)
      [] t = "faire_product_variants" -> flatten_product_variants(r)
      [] t = "faire_product_variant_option_sets" ->
             flatten_product_variant_option_sets(r)
      [] t = "faire_product_attributes" -> flatten_product_attributes(r)
      [] t = "faire_variant_prices" -> flatten_variant_prices(r)

\* The raw record after the transformer t has processed it: the parent
\* transformers pop from a copy, the flattening functions only read.
RawAfterPoppedInPlace(t, r) ==
    CASE t = "faire_orders" -> Without(r, {"items", "shipments"})
      [] t = "faire_products" -> Without(r, ProductNested \cup {"taxonomy_type"})
      [] OTHER -> r
RawAfter(t, r) == r

TransformersOf(kind) == IF kind = "order" THEN OrderTransformers ELSE ProductTransformers

\* One transformer processes the raw record.
Transform(t) ==
    /\ raw_kind \in {"order", "product"}
    /\ t \in TransformersOf(raw_kind) \ ran
    /\ emitted' = [emitted EXCEPT ![t] = Yields(t, raw)]
    /\ raw' = RawAfter(t, raw)
    /\ ran' = ran \cup {t}
    /\ UNCHANGED raw_kind
    /\ UNCHANGED << graphqlVars, pipelineVars, loopVars, faireVars, tokenVars >>

-----------------------------------------------------------------------------
(* faire: the raw records explored *)

\* The mapping d without the keys whose value is Absent.
Present(d) == [x \in {k \in DOMAIN d : d[k] # Absent} |-> d[x]]

ItemPlain == Dict([id |-> Str("i1"), sku |-> Str("sku1"), quantity |-> Str("2")])
ItemExtra == Dict([id |-> Str("i2"), state |-> Str("NEW")])
ItemOwnOrderId == Dict([id |-> Str("i3"), order_id |-> Str("o9")])
ItemSameOrderId == Dict([id |-> Str("i4"), order_id |-> Str("o1")])

ShipmentPlain ==
    Dict([id |-> Str("s1"), carrier |-> Str("UPS"), tracking_code |-> Str("1Z")])
ShipmentOwnOrderId == Dict([id |-> Str("s2"), order_id |-> PyNone])

RawOrders ==
    {Present([id |-> i, state |-> Str("DELIVERED"), items |-> it, shipments |-> sh]) :
        i \in {Str("o1"), Absent},
        it \in {Absent, List(<< >>), List(<<ItemPlain>>), List(<<ItemPlain, ItemExtra>>),
                List(<<ItemOwnOrderId>>), List(<<ItemExtra, ItemSameOrderId>>)},
        sh \in {Absent, List(<<ShipmentPlain>>),
                List(<<ShipmentPlain, ShipmentOwnOrderId>>)}}

OptionSize == Dict([name |-> Str("Size"), values |-> List(<<Str("S"), Str("M")>>)])
OptionColor == Dict([name |-> Str("Color")])
OptionFit == Dict([name |-> Str("Fit"), values |-> List(<<Str("slim")>>)])
OptionWithId == Dict([id |-> Str("vos_1"), name |-> Str("Size")])

AttributeMaterial == Dict([name |-> Str("material"), value |-> Str("wool")])
AttributeNameOnly == Dict([name |-> Str("season")])

Price ==
    Dict([geo_constraint |-> Dict([country |-> Str("USA")]),
          wholesale_price |-> Dict([amount_minor |-> Str("500"), currency |-> Str("USD")])])

VariantPlain ==
    Dict([id |-> Str("v1"), sku |-> Str("sku1"), images |-> List(<<Str("img")>>),
          prices |-> List(<<Price>>), weight |-> Str("100")])
VariantOwnProductId == Dict([id |-> Str("v2"), product_id |-> Str("p9")])

RawProducts ==
    {Present([id |-> i, name |-> Str("Scarf"), variant_option_sets |-> os,
              product_attributes |-> at, variants |-> va, taxonomy_type |-> tx]) :
        i \in {Str("p1"), Absent},
        os \in {Absent, List(<<OptionSize, OptionColor, OptionFit>>),
                List(<<OptionWithId, OptionColor>>)},
        at \in {Absent, List(<<AttributeMaterial, AttributeNameOnly, AttributeMaterial>>),
                List(<<AttributeMaterial>>)},
        va \in {Absent, List(<<VariantPlain>>), List(<<VariantPlain, VariantOwnProductId>>)},
        tx \in {Absent, Dict([id |-> Str("tt_1"), name |-> Str("Scarves")])}}

FlattenInit ==
    /\ GraphqlIdle
    /\ TokenIdle
    /\ PipelineIdle
    /\ LoopIdle
    /\ FaireIdle
    /\ ran = {}
    /\ emitted = [t \in Transformers |-> << >>]
    /\ \/ raw_kind = "order" /\ raw \in RawOrders
       \/ raw_kind = "product" /\ raw \in RawProducts

FlattenNext == \E t \in Transformers : Transform(t)

FlattenSpec == FlattenInit /\ [][FlattenNext]_vars

-----------------------------------------------------------------------------
(* Properties of the Faire flattening *)

\* The nested arrays of a product that get synthetic ids, with the
\* transformer that flattens each and the word its ids are built with.
SyntheticFields == {"variant_option_sets", "product_attributes"}
ChildOf(field) ==
    IF field = "variant_option_sets" THEN "faire_product_variant_option_sets"
    ELSE "faire_product_attributes"
IdWord(field) == IF field = "variant_option_sets" THEN "option" ELSE "attr"

\* The elements of the array under field of the raw record.
Elements(field) == GetOr(raw, field, List(<< >>)).val

\* The children of a field are one per element, in input order, with the
\* ids product_id, word, 0 .. n-1, and the parent record has no such field.
SyntheticChildren(field, word) ==
    /\ (ChildOf(field) \in ran) =>
          /\ Len(emitted[ChildOf(field)]) = Len(Elements(field))
          /\ \A i \in 1..Len(Elements(field)) :
                /\ emitted[ChildOf(field)][i].id =
                       [type |-> "fstr", val |-> <<Get(raw, "id"), word, i - 1>>]
                /\ emitted[ChildOf(field)][i].name = Get(Elements(field)[i].val, "name")
    /\ ("faire_products" \in ran) =>
          field \notin DOMAIN emitted["faire_products"][1]

\* C19, as stated: the children of a nested array X of a product get the
\* synthetic ids {product_id}_X_0, {product_id}_X_1, ... with X the name of
\* the nested field, in input order, and the parent record has no X field.
C19_IdsNamedByField ==
    (raw_kind = "product") =>
        \A field \in SyntheticFields : SyntheticChildren(field, field)

\* C19, amended: the synthetic ids are {product_id}_option_i for
\* variant_option_sets and {product_id}_attr_i for product_attributes, i from
\* 0 in input order, whatever ids the elements carry; the parent record has
\* neither field.
C19_IdsNamedByWord ==
    (raw_kind = "product") =>
        \A field \in SyntheticFields : SyntheticChildren(field, IdWord(field))

C19_Witness ==
    /\ raw_kind = "product"
    /\ Get(raw, "id") = Str("p1")
    /\ Elements("variant_option_sets") = <<OptionSize, OptionColor, OptionFit>>
    /\ Len(Elements("product_attributes")) = 3
    /\ {"faire_products", "faire_product_variant_option_sets",
        "faire_product_attributes"} \subseteq ran
    /\ emitted["faire_product_variant_option_sets"][3].id =
           [type |-> "fstr", val |-> <<Str("p1"), "option", 2>>]
    /\ emitted["faire_product_attributes"][1].id =
           [type |-> "fstr", val |-> <<Str("p1"), "attr", 0>>]

\* One record per element of the array under field, each with the id of the
\* raw record under key.
ChildrenCarry(t, field, key) ==
    (t \in ran) =>
        /\ Len(emitted[t]) = Len(Elements(field))
        /\ \A i \in 1..Len(emitted[t]) : emitted[t][i][key] = Get(raw, "id")

\* C20: every child record carries the primary key of its parent: the items
\* and shipments of an order its id as order_id, the variants of a product
\* its id as product_id, one record per element, whatever keys the element
\* has.
C20_ChildrenCarryParentKey ==
    /\ (raw_kind = "order") =>
          /\ ChildrenCarry("faire_order_items", "items", "order_id")
          /\ ChildrenCarry("faire_order_shipments", "shipments", "order_id")
    /\ (raw_kind = "product") =>
          ChildrenCarry("faire_product_variants", "variants", "product_id")

-----------------------------------------------------------------------------
(* Properties of a bare call of fetch_shiphero_graphql: GraphQL errors and
   rate limiting *)

\* A 200 answer whose body has an errors array without a code-30 error.
IsFatalGraphql(r) ==
    /\ r.kind = "http" /\ r.status = 200 /\ r.has_errors
    /\ \A j \in 1..Len(r.errors) : r.errors[j] # ThrottleCode

\* C21: a 200 answer whose errors array has no code-30 error is fatal on the
\* pass that receives it, whatever the pass: that pass saves one error
\* context and raises ShipHeroAPIError without sleeping, and no request
\* follows it.
C21_GraphqlErrorsFatal ==
    /\ [](\A i \in 1..Len(hist) :
             IsFatalGraphql(hist[i])
             => ( /\ i = Len(hist)
                  /\ fpc = "raised"
                  /\ error = "ShipHeroAPIError"
                  /\ reqs = i
                  /\ Len(sleeps) = i - 1
                  /\ saved >= 1
                  /\ ~ENABLED Next ))
    /\ [][(hist' # hist /\ IsFatalGraphql(Last(hist')))
          => (saved' = saved + 1 /\ sleeps' = sleeps /\ fpc' = "raised")]_vars

C21_Witness ==
    /\ max_retries = 3
    /\ Len(hist) = 3
    /\ IsNetErr(hist[1])
    /\ IsThrottleSignal(hist[2])
    /\ hist[3] = GqlErrors(<<5>>, "absent")
    /\ fpc = "raised"
    /\ saved = 1

\* The seconds a 429 answer asks to wait: its Retry-After header, 60 without it.
RetryAfterSeconds(r) == IF r.hdr = "absent" THEN DefaultWait ELSE IntOf(r.hdr)

\* C22: every 429 answer is followed by a sleep of its Retry-After seconds
\* (60 when the header is absent) and then by a further request: a 429 is
\* never the last answer of a call that has ended.
C22_RateLimitedRetried ==
    \A i \in 1..Len(hist) :
        (IsStatus(hist[i], 429) /\ hist[i].hdr \in IntTexts \cup {"absent"})
        => ( /\ Len(sleeps) >= i
             /\ sleeps[i] = RetryAfterSeconds(hist[i]) * 1000
             /\ FetchDone => Len(hist) > i )

-----------------------------------------------------------------------------
(* Properties of the Faire request counter *)

\* C23: the counter counts requests: once a load has completed, count is the
\* number of HTTP requests it issued, and count reaches the threshold of 250
\* only when 250 requests have been issued.
C23_CounterCountsRequests ==
    /\ (faire_pc = "done") => count = faire_gets
    /\ (count >= Threshold) => faire_gets >= Threshold

-----------------------------------------------------------------------------
(* utils/shiphero_token_refresh: the token check and the refresh *)

\* datetime.now(), in seconds
Now == 1000

\* if not expiration_str: return True; return datetime.now() >= expiration_time
is_token_expired_always(expiration) == TRUE
is_token_expired(expiration) ==
    IF ~expiration.present THEN TRUE ELSE Now >= expiration.at

\* The answer to the requests.post of a refresh: the call raises (kind
\* "neterr"), or a response (kind "http") with its status and the
\* access_token ("absent": no such key) and expires_in of its JSON body.
RefreshAnswer(kind, status, token, has_expires_in, expires_in) ==
    [kind |-> kind, status |-> status, access_token |-> token,
     has_expires_in |-> has_expires_in, expires_in |-> expires_in]

RefreshNetErr == RefreshAnswer("neterr", 0, "absent", FALSE, 0)

RefreshAnswers ==
    {RefreshNetErr}
    \cup {RefreshAnswer("http", s, "absent", FALSE, 0) : s \in {401, 500}}
    \cup {RefreshAnswer("http", s, t, e[1], e[2]) :
             s \in {200, 201}, t \in {"absent", "", "tok_new"},
             e \in {<<FALSE, 0>>, <<TRUE, 0>>, <<TRUE, 3600>>}}

\* if response.status_code == 200: ... if new_token and expires_in
Refreshed(a) ==
    /\ a.status = 200
    /\ a.access_token \notin {"absent", ""}
    /\ a.has_expires_in /\ a.expires_in # 0

\* if not refresh_token_if_needed(): raise ShipHeroAPIError
RefreshFailedNever(ok) == FALSE
RefreshFailed(ok) == ~ok

-----------------------------------------------------------------------------
(* shiphero: load_to_postgres *)

TokenFrame ==
    UNCHANGED << graphqlVars, pipelineVars, loopVars, faireVars, flattenVars >>

\* refresh_token_if_needed() returned ok: load_to_postgres raises or goes on.
AfterTokenCheck(ok) ==
    /\ refresh_result' = IF ok THEN "True" ELSE "False"
    /\ IF RefreshFailed(ok)
       THEN load_pc' = "raised" /\ load_error' = "ShipHeroAPIError"
       ELSE load_pc' = "checked" /\ load_error' = load_error

\* load_to_postgres up to the refresh request: is_token_expired(), then the
\* refresh_token lookup of refresh_shiphero_token().
LoadStart ==
    /\ load_pc = "start"
    /\ IF ~is_token_expired(token_expires_at) THEN AfterTokenCheck(TRUE)
       ELSE IF ~refresh_token THEN AfterTokenCheck(FALSE)
       ELSE /\ load_pc' = "refresh"
            /\ UNCHANGED << refresh_result, load_error >>
    /\ UNCHANGED << token_expires_at, refresh_token, warehouse_id, secrets_toml,
                    config_toml, refresh_posts, pipelines, runs >>
    /\ TokenFrame

\* The refresh request with its answer a, update_token_in_secrets on a full
\* answer, and the return into load_to_postgres.
RefreshPost(a) ==
    /\ load_pc = "refresh"
    /\ refresh_posts' = Append(refresh_posts, a)
    /\ IF a.kind = "neterr"
       THEN /\ load_pc' = "raised"
            /\ load_error' = "ConnectionError"
            /\ UNCHANGED << refresh_result, secrets_toml, config_toml >>
       ELSE IF Refreshed(a)
       THEN /\ secrets_toml' = a.access_token
            /\ config_toml' = Expiry(TRUE, Now + a.expires_in)
            /\ AfterTokenCheck(TRUE)
       ELSE /\ UNCHANGED << secrets_toml, config_toml >>
            /\ AfterTokenCheck(FALSE)
    /\ UNCHANGED << token_expires_at, refresh_token, warehouse_id, pipelines, runs >>
    /\ TokenFrame

\* pipeline = dlt.pipeline(...); shiphero_source(), which needs the warehouse
\* id; pipeline.run(...) is called.
LoadPipeline ==
    /\ load_pc = "checked"
    /\ pipelines' = pipelines + 1
    /\ IF ~warehouse_id
       THEN load_pc' = "raised" /\ load_error' = "ValueError" /\ runs' = runs
       ELSE load_pc' = "running" /\ load_error' = load_error /\ runs' = runs + 1
    /\ UNCHANGED << token_expires_at, refresh_token, warehouse_id, secrets_toml,
                    config_toml, refresh_posts, refresh_result >>
    /\ TokenFrame

\* The requests of one pipeline run and the way it ends: the products and
\* orders generators (the paging loops above) issue n session.post calls in
\* all, then load_info is returned or the exception of a generator leaves
\* load_to_postgres through its except clauses.
RunPosts == {0, 1, 2}
RunOutcomes == {"return", "ShipHeroAPIError", "Exception"}

\* pipeline.run(...) extracts and loads, then load_to_postgres ends.
LoadRun(n, o) ==
    /\ load_pc = "running"
    /\ posts' = posts + n
    /\ IF o = "return"
       THEN load_pc' = "returned" /\ load_error' = load_error
       ELSE load_pc' = "raised" /\ load_error' = o
    /\ UNCHANGED << token_expires_at, refresh_token, warehouse_id, secrets_toml,
                    config_toml, refresh_posts, refresh_result, pipelines, runs >>
    /\ UNCHANGED << paramVars, fetchVars, pagerVars, cost >>
    /\ UNCHANGED << pipelineVars, loopVars, faireVars, flattenVars >>

Expiries == {NoExpiry, Expiry(TRUE, Now - 1), Expiry(TRUE, Now), Expiry(TRUE, Now + 1)}

TokenInit ==
    /\ GraphqlIdle
    /\ PipelineIdle
    /\ LoopIdle
    /\ FaireIdle
    /\ FlattenIdle
    /\ load_pc = "start"
    /\ token_expires_at \in Expiries
    /\ refresh_token \in BOOLEAN
    /\ warehouse_id \in BOOLEAN
    /\ secrets_toml = "tok_old"
    /\ config_toml = token_expires_at
    /\ refresh_posts = << >>
    /\ refresh_result = "none"
    /\ load_error = "None"
    /\ pipelines = 0
    /\ runs = 0

TokenNext ==
    \/ LoadStart
    \/ \E a \in RefreshAnswers : RefreshPost(a)
    \/ LoadPipeline
    \/ \E n \in RunPosts, o \in RunOutcomes : LoadRun(n, o)

TokenSpec == TokenInit /\ [][TokenNext]_vars

-----------------------------------------------------------------------------
(* Properties of the ShipHero token check *)

\* The configured expiry is missing or not after now.
ExpiryPassed == ~token_expires_at.present \/ token_expires_at.at <= Now

\* The answer a is a response, but not a 200 with an access_token and a
\* non-zero expires_in.
NotAFullAnswer(a) ==
    /\ a.kind = "http"
    /\ ~( /\ a.status = 200
          /\ a.access_token \notin {"absent", ""}
          /\ a.has_expires_in /\ a.expires_in # 0 )

C25_RefreshOnlyIfNeeded ==
    /\ (token_expires_at.present /\ token_expires_at.at > Now /\ load_pc # "start")
       => ( /\ refresh_result = "True"
            /\ refresh_posts = << >>
            /\ secrets_toml = "tok_old"
            /\ config_toml = token_expires_at )
    /\ \A i \in 1..Len(refresh_posts) :
          NotAFullAnswer(refresh_posts[i])
          => ( /\ refresh_result = "False"
               /\ secrets_toml = "tok_old"
               /\ config_toml = token_expires_at )

C25_Witness ==
    /\ token_expires_at = Expiry(TRUE, Now)
    /\ refresh_posts = << RefreshAnswer("http", 200, "tok_new", TRUE, 0) >>
    /\ refresh_result = "False"
    /\ secrets_toml = "tok_old"

-----------------------------------------------------------------------------
(* Properties of the Shopify transport *)

\* An answer with an error status (429 and 5xx included) or with a GraphQL
\* errors payload.
IsErrorAnswer(r) == r.kind = "http" /\ (r.status >= 400 \/ r.has_errors)

\* C26: every invocation of fetch_shopify_graphql issues exactly one request
\* and never sleeps; an error status or an errors payload makes that one
\* request raise, which ends the paging loop: no further page is requested.
C26_ShopifyPureTransport ==
    (extractor \in ShopifyExtractors) =>
        /\ sleeps = << >>
        /\ reqs = Len(hist) /\ reqs <= 1
        /\ (fpc = "entry") => (reqs = 0 /\ posts = Len(calls) - 1)
        /\ (fpc \in {"returned", "raised"}) => (reqs = 1 /\ posts = Len(calls))
        /\ (ppc \in {"loop", "done", "raised"}) => posts = Len(calls)
        /\ (Len(hist) = 1 /\ IsErrorAnswer(hist[1])) =>
              /\ error # "None"
              /\ Len(pages) = Len(calls) - 1
              /\ \/ ppc = "fetching" /\ fpc = "raised" /\ ~ENABLED PagerIterate
                 \/ ppc = "raised" /\ perror = error /\ ~ENABLED PagerNext

C26_Witness ==
    /\ extractor = "shopify.products"
    /\ ppc = "raised"
    /\ page_count = 2
    /\ hist = << Http(429, "absent") >>
    /\ posts = 2
    /\ psleeps = << ShopifyPageDelay >>
    /\ perror = "ClientResponseError"

-----------------------------------------------------------------------------
(* Properties of the Loop Returns paging *)

\* The request j is the first one of its date chunk.
FirstOfChunk(j) == j = 1 \/ gets[j - 1].chunk # gets[j].chunk

\* C27: the first request of each date chunk goes to the base URL with the
\* filter parameters and that chunk's own from and to; every later request
\* of the chunk goes to the nextPageUrl of the answer before it, without
\* parameters.
C27_ParamsOnFirstRequestOnly ==
    \A j \in 1..Len(gets) :
        IF FirstOfChunk(j)
        THEN /\ gets[j].url = BaseUrl
             /\ gets[j].params.present
             /\ gets[j].params.from = date_chunks[gets[j].chunk][1]
             /\ gets[j].params.to = date_chunks[gets[j].chunk][2]
        ELSE /\ gets[j].url = gets[j - 1].body.next
             /\ gets[j].params = NoParams

C27_Witness ==
    /\ Len(gets) = 3
    /\ gets[1].chunk = 1 /\ gets[2].chunk = 1 /\ gets[3].chunk = 2
    /\ gets[2].url = BaseUrl
    /\ gets[2].params = NoParams
    /\ gets[3].params = Params(TRUE, <<2024, 4, 10>>, <<2024, 5, 30>>)

\* The answer b ends the paging of its chunk: it has no nextPageUrl, no
\* items, or is not a JSON object.
EndsChunk(b) == b.kind # "dict" \/ b.next = Null \/ Len(b.items) = 0

\* C28: in a date chunk the request after an answer is made only when that
\* answer is a JSON object with items and a nextPageUrl; any other answer is
\* the last one of its chunk and the next request belongs to the next chunk;
\* the chunks are taken one by one in chronological order; an HTTP error
\* ends the fetch with no further request.
C28_PagingStopsAndChunksInOrder ==
    /\ \A i \in 1..(Len(date_chunks) - 1) :
          Strptime(date_chunks[i][1]) < Strptime(date_chunks[i + 1][1])
    /\ \A j \in 1..Len(gets) :
          LET g == gets[j]
              last == j = Len(gets)
          IN  /\ g.chunk = IF j = 1 THEN 1
                           ELSE IF EndsChunk(gets[j - 1].body) THEN gets[j - 1].chunk + 1
                           ELSE gets[j - 1].chunk
              /\ (g.body.kind = "error") =>
                    /\ last
                    /\ loop_pc = "raised" /\ loop_error = "HTTPError"
                    /\ ~ENABLED LoopNext
              /\ (g.body.kind # "error" /\ EndsChunk(g.body) /\ last) =>
                    \/ loop_pc = "for" /\ chunk_i = g.chunk /\ ENABLED LoopChunk
                    \/ loop_pc = "while" /\ chunk_i = g.chunk + 1 /\ url = BaseUrl
                    \/ loop_pc = "done" /\ chunk_i = g.chunk /\ chunk_i = Len(date_chunks)
              /\ (~EndsChunk(g.body) /\ last) =>
                    (loop_pc = "while" /\ chunk_i = g.chunk /\ url = g.body.next)

C28_Witness ==
    /\ Len(date_chunks) = 3
    /\ Len(gets) = 3
    /\ gets[1].body = Body("dict", << >>, "https://loop/next")
    /\ gets[2].body.kind = "list"
    /\ gets[3].body.kind = "error"
    /\ gets[3].chunk = 3
    /\ loop_pc = "raised"

-----------------------------------------------------------------------------
(* Properties of chunk_date_range *)

\* The end date fetch_returns passes on the day today: to_date or today.
EndDates == {IF to_date # NoDate THEN to_date ELSE today : today \in Todays}

\* C29: for start_date < end_date and chunk_days >= 1 chunk_date_range
\* returns a non-empty list, of at most one chunk per day of the range, that
\* starts at start_date, ends at end_date and in which every chunk ends on
\* the day the next one starts; for
\* start_date >= end_date it returns the empty list, and fetch_returns then
\* makes no request.
C29_ChunksTileTheRange ==
    /\ (loop_pc = "called" /\ chunk_days >= 1) =>
          IF Strptime(from_date) < Strptime(to_date)
          THEN /\ Len(date_chunks) >= 1
               /\ Len(date_chunks) <= Strptime(to_date) - Strptime(from_date)
               /\ date_chunks[1][1] = from_date
               /\ date_chunks[Len(date_chunks)][2] = to_date
               /\ \A i \in 1..(Len(date_chunks) - 1) :
                     date_chunks[i][2] = date_chunks[i + 1][1]
          ELSE date_chunks = << >>
    /\ (loop_pc \in {"for", "while", "done"}) =>
          \A end \in EndDates :
              IF Strptime(from_date) < Strptime(end)
              THEN /\ Len(date_chunks) >= 1
                   /\ date_chunks[1][1] = from_date
                   /\ date_chunks[Len(date_chunks)][2] = end
              ELSE date_chunks = << >> /\ gets = << >> /\ loop_pc \in {"for", "done"}

C29_Witness ==
    /\ loop_pc = "called"
    /\ chunk_days = 7
    /\ from_date = <<2024, 1, 2>>
    /\ to_date = <<2024, 1, 17>>
    /\ date_chunks = << << <<2024, 1, 2>>, <<2024, 1, 9>> >>,
                        << <<2024, 1, 9>>, <<2024, 1, 16>> >>,
                        << <<2024, 1, 16>>, <<2024, 1, 17>> >> >>

-----------------------------------------------------------------------------
(* Properties of the Faire transformers *)

====
